---- MODULE Spec2Model ----
(***************************************************************************)
(* Model of the lasseck2013 model-fitting pipeline                         *)
(* (bmooreii-Lasseck2013/modules/model_fit_algo/lasseck2013/               *)
(* model_fit_algo.py).                                                     *)
(*                                                                         *)
(* Spec       : model_fit_algo, the process pool running one run_stats     *)
(*              task per label, then the per-species model phase.          *)
(* SpecFFS    : one call of file_file_stats, template by template.         *)
(* SpecFS     : one call of file_stats (band split and row assembly).      *)
(***************************************************************************)
EXTENDS Integers, Sequences, FiniteSets, TLC

\* ------------------------------------------------------------------------
\* Bounds
\* ------------------------------------------------------------------------
NumLabels == 2      \* rows of the training labels file (labels_df.index)
NumBirds == 2       \* species columns of the training labels file
MaxProcs == 2       \* largest worker count return_cpu_count may give
MaxH == 2           \* largest spectrogram height (frequency bins)
MaxW == 2           \* largest spectrogram width (time bins)
MaxBuf == 1         \* largest template_match_frequency_buffer
MaxBoxes == 2       \* largest number of template rows over all candidates
MaxRows == 4        \* largest spectrogram height file_stats is given
MaxBands == 3       \* largest num_frequency_bands
RowLen == 2         \* entries of the first-order row build_X_y reads
MaxFreqs == 2       \* largest number of frequency bins of a Spectrogram
MaxTimes == 2       \* largest number of time windows of a Spectrogram
MaxDb == 2          \* largest decibel value of a Spectrogram
MaxCalls == 2       \* largest number of calls made on Spectrogram objects
MaxWin == 2         \* largest window_samples, overlap_samples, sample rate

Labels == 1..NumLabels
Birds == 1..NumBirds

VARIABLES
    \* --- model_fit_algo / run_stats ---
    db_rw,          \* config['general'].getboolean('db_rw')
    nprocs,         \* return_cpu_count(config)
    spectrograms,   \* the persisted 'spectrograms' collection, by label
    statistics,     \* the persisted 'statistics' collection, by label
    task,           \* state of the future / run_stats call of each label
    row_f,          \* run_stats local: first-order row of each task
    match_stats,    \* run_stats local: match statistics of each task
    writes,         \* number of write_file_stats calls made for each label
    orch,           \* position of model_fit_algo: [pc, idx, bird]
    models,         \* species whose model write_model has persisted
    \* --- file_file_stats ---
    idx_one,        \* the label run_stats is computing
    spec_one,       \* shape of the (blurred) source spectrogram
    template_pool,  \* config: template_pool and the labels of pools_df
    frequency_buffer, \* config: template_match_frequency_buffer
    items,          \* the cursor iterated by the outer loop
    pos,            \* position of the outer loop in items
    idx_two,        \* label of the current candidate
    spec_two,       \* shape of the current candidate's spectrogram
    df_two,         \* the current candidate's (down-selected) box table
    idx,            \* rows of df_two the inner loop has finished
    y_min_target,   \* search window of the row last taken by the inner loop
    y_max_target,
    match_stats_dict, \* the mapping being built: label -> rows
    overwritten,    \* label -> per row, what lines 187-189 stored (<<>> if nothing)
    ffs_pc,         \* position of file_file_stats
    \* --- file_stats ---
    num_frequency_bands, \* config['model_fit'].getint('num_frequency_bands')
    df,             \* the label's bounding-box table
    spec,           \* shape of the label's spectrogram
    freq_bands,     \* the row ranges np.array_split cut raw_spec into
    freq_bands_stats, \* stats.describe of each band
    df_stats,       \* describe() of the width, height and y_min columns
    row,            \* the statistics row
    fs_pc,          \* position of file_stats
    \* --- build_X_y ---
    labels_bird,    \* the argument labels_df: one species column, by label
    pools_df,       \* config: template_pool and the index of pools_df
    collection,     \* the persisted 'statistics' collection build_X_y reads
    get_file_file_stats_for, \* the candidate labels whose match rows are kept
    unread,         \* labels whose record the cursor has still to return
    file_stats,     \* build_X_y local: per label position, None or the row
    file_file_stats, \* build_X_y local: per position, None or the kept arrays
    tmp,            \* build_X_y local _tmp: per position, the stacked rows
    X,              \* the returned matrix
    y,              \* the returned label vector
    bxy_pc,         \* position of build_X_y
    \* --- Spectrogram ---
    heap,           \* the 2d arrays in memory, by identity
    sg_self,        \* a Spectrogram object: its eight attributes
    sg_res,         \* the object the last call returned, if any
    sg_ret,         \* the value the last call returned, if not an object
    sg_exc,         \* the exception the last call raised, or "none"
    sg_call,        \* the last call: the method and its receiver
    sg_calls        \* number of calls made

statsVars == <<nprocs, spectrograms, statistics, task, row_f, match_stats,
               writes, orch, models>>
ffsVars == <<idx_one, spec_one, template_pool, frequency_buffer, items, pos,
             idx_two, spec_two, df_two, idx, y_min_target, y_max_target,
             match_stats_dict, overwritten, ffs_pc>>
fsVars == <<num_frequency_bands, df, spec, freq_bands, freq_bands_stats,
            df_stats, row, fs_pc>>
bxyVars == <<labels_bird, pools_df, collection, get_file_file_stats_for, unread,
             file_stats, file_file_stats, tmp, X, y, bxy_pc>>
sgVars == <<heap, sg_self, sg_res, sg_ret, sg_exc, sg_call, sg_calls>>
vars == <<db_rw, statsVars, ffsVars, fsVars, bxyVars, sgVars>>

\* ------------------------------------------------------------------------
\* Persistence layer and spectrogram source (modules.db_utils)
\* ------------------------------------------------------------------------
\* the stored spectrogram data of every label before the run
InitialSpectrograms == [l \in Labels |-> <<"spectrogram", l>>]

NoRecord == [written |-> FALSE, row |-> <<>>, match |-> <<>>]

\* read_spectrogram(label, config): the stored data of one label
read_spectrogram(label) == spectrograms[label]

\* return_cursor(labels, 'spectrograms', config): one item per requested
\* label, each exposing its label
return_cursor(labels) ==
    [i \in 1..Len(labels) |-> [kind |-> "dict", label |-> labels[i]]]

\* cursor_item_to_data(item, config): the stored data of the item's label
cursor_item_to_data(it) == spectrograms[it.label]

\* write_file_stats(label, row, match_stats, config): one record keyed by
\* label, replacing any earlier record of that label
write_file_stats(label, stats_row, match) ==
    [statistics EXCEPT ![label] = [written |-> TRUE, row |-> stats_row, match |-> match]]

\* ------------------------------------------------------------------------
\* labels_df
\* ------------------------------------------------------------------------
\* labels_df.index.values.tolist()
LabelsIndex == [i \in 1..NumLabels |-> i]

\* ------------------------------------------------------------------------
\* file_file_stats: the items it iterates over
\* ------------------------------------------------------------------------
\* {'label': x for x in labels}: a dict comprehension with the constant key
\* 'label'; iterating a dict yields its keys, so the loop sees the string
\* 'label' once (never when labels is empty)
LiveItems(labels) ==
    IF Len(labels) = 0 THEN <<>> ELSE <<[kind |-> "str", label |-> 0]>>

\* config['model_fit']['template_pool'] empty: no pool
NoPool == [configured |-> FALSE, labels |-> <<>>]

\* lines 123-138: the cursor over the pool's labels (from template_pool_db
\* when that is set, from the default database otherwise), else over
\* labels_df, else the live "items"
Items(rw, pool, labels) ==
    IF rw
    THEN IF pool.configured THEN return_cursor(pool.labels)
                            ELSE return_cursor(labels)
    ELSE LiveItems(labels)

\* item['label'] raises TypeError when item is a string
ItemLabelRaises(it) == it.kind = "str"

\* variant: run_stats hands over the labels other than its own
RunStatsLabelsOthers(l) == SelectSeq(LabelsIndex, LAMBDA x : x # l)

\* the labels run_stats hands to file_file_stats (labels_df, unfiltered)
RunStatsLabels(l) == LabelsIndex

\* ------------------------------------------------------------------------
\* Abstract results of one task (contents are settled in SpecFS / SpecFFS)
\* ------------------------------------------------------------------------
\* file_stats(idx_one): a function of the label's own stored data
FileStatsRow(data_one) == <<"row", data_one>>

\* the match statistics of one candidate: a function of the source's and
\* the candidate's stored data
MatchEntry(data_one, data_two) == <<"match", data_one, data_two>>

FileFileStatsRaises(l) ==
    \E i \in 1..Len(Items(db_rw, template_pool, RunStatsLabels(l))) :
        ItemLabelRaises(Items(db_rw, template_pool, RunStatsLabels(l))[i])

\* variant: a candidate's entry also depends on whether that candidate's
\* statistics record has been written yet
FileFileStatsDictShared(l, data_one) ==
    LET its == Items(db_rw, template_pool, RunStatsLabels(l))
        keys == {its[i].label : i \in 1..Len(its)}
    IN [k \in keys |-> IF statistics[k].written
                       THEN MatchEntry(data_one, statistics[k].row)
                       ELSE MatchEntry(data_one, cursor_item_to_data([label |-> k]))]

FileFileStatsDict(l, data_one) ==
    LET its == Items(db_rw, template_pool, RunStatsLabels(l))
        keys == {its[i].label : i \in 1..Len(its)}
    IN [k \in keys |-> MatchEntry(data_one, cursor_item_to_data([label |-> k]))]

ZeroRow == <<0, 0, 0>>

\* the file_file_stats variables while no call is modelled
FFSIdle ==
    /\ idx_one = 1
    /\ spec_one = [h |-> 1, w |-> 1]
    /\ template_pool = NoPool
    /\ frequency_buffer = 0
    /\ items = <<>>
    /\ pos = 1
    /\ idx_two = 0
    /\ spec_two = [h |-> 1, w |-> 1]
    /\ df_two = <<>>
    /\ idx = 0
    /\ y_min_target = 0
    /\ y_max_target = 0
    /\ match_stats_dict = <<>>
    /\ overwritten = <<>>
    /\ ffs_pc = "idle"

\* the file_stats variables while no call is modelled
FSIdle ==
    /\ num_frequency_bands = 1
    /\ df = <<>>
    /\ spec = [h |-> 1, w |-> 1]
    /\ freq_bands = <<>>
    /\ freq_bands_stats = <<>>
    /\ df_stats = [len |-> 0, min |-> <<>>, max |-> <<>>, mean |-> <<>>, std |-> <<>>]
    /\ row = <<>>
    /\ fs_pc = "idle"

\* Python's None in a list of build_X_y
None == [set |-> FALSE, val |-> <<>>]

\* the build_X_y variables while no call is modelled
BXYIdle ==
    /\ labels_bird = [l \in Labels |-> 0]
    /\ pools_df = NoPool
    /\ collection = [l \in Labels |-> NoRecord]
    /\ get_file_file_stats_for = <<>>
    /\ unread = {}
    /\ file_stats = [l \in Labels |-> None]
    /\ file_file_stats = [l \in Labels |-> None]
    /\ tmp = [l \in Labels |-> None]
    /\ X = <<>>
    /\ y = <<>>
    /\ bxy_pc = "idle"

\* no object, and an attribute that is None
NoObject == [made |-> FALSE]
NoneAttr == [set |-> FALSE, val |-> 0]
NoCall == [op |-> "", self |-> ""]

\* the Spectrogram variables while no object is modelled
SGIdle ==
    /\ heap = <<>>
    /\ sg_self = NoObject
    /\ sg_res = NoObject
    /\ sg_ret = NoneAttr
    /\ sg_exc = "none"
    /\ sg_call = NoCall
    /\ sg_calls = 0

\* the run_stats / model_fit_algo variables while no run is modelled
StatsIdle ==
    /\ nprocs = 1
    /\ spectrograms = InitialSpectrograms
    /\ statistics = [l \in Labels |-> NoRecord]
    /\ task = [l \in Labels |-> "pending"]
    /\ row_f = [l \in Labels |-> <<>>]
    /\ match_stats = [l \in Labels |-> <<>>]
    /\ writes = [l \in Labels |-> 0]
    /\ orch = [pc |-> "idle", idx |-> 1, bird |-> 1]
    /\ models = {}

\* ------------------------------------------------------------------------
\* run_stats, one statement at a time
\* ------------------------------------------------------------------------
Active == {"file_stats", "file_file_stats", "write_file_stats"}
Running == {l \in Labels : task[l] \in Active}

\* a worker takes the oldest pending call
Start(l) ==
    /\ orch.pc = "map"
    /\ task[l] = "pending"
    /\ \A k \in Labels : k < l => task[k] # "pending"
    /\ Cardinality(Running) < nprocs
    /\ task' = [task EXCEPT ![l] = "file_stats"]
    /\ UNCHANGED <<db_rw, nprocs, spectrograms, statistics, row_f,
                   match_stats, writes, orch, models>>
    /\ UNCHANGED <<ffsVars, fsVars, bxyVars, sgVars>>

\* variant: the first-order row is persisted as soon as it is computed
RunStatsFileStatsEager(l) ==
    /\ task[l] = "file_stats"
    /\ \E ok \in BOOLEAN :
        IF ok
        THEN /\ row_f' = [row_f EXCEPT ![l] = FileStatsRow(read_spectrogram(l))]
             /\ statistics' = write_file_stats(l, FileStatsRow(read_spectrogram(l)), <<>>)
             /\ writes' = [writes EXCEPT ![l] = @ + 1]
             /\ task' = [task EXCEPT ![l] = "file_file_stats"]
        ELSE /\ row_f' = row_f
             /\ statistics' = statistics
             /\ writes' = writes
             /\ task' = [task EXCEPT ![l] = "failed"]
    /\ UNCHANGED <<db_rw, nprocs, spectrograms, match_stats, orch, models>>
    /\ UNCHANGED <<ffsVars, fsVars, bxyVars, sgVars>>

\* line 211: file_stats(idx_one, config); reading the spectrogram may raise
RunStatsFileStats(l) ==
    /\ task[l] = "file_stats"
    /\ \E ok \in BOOLEAN :
        IF ok
        THEN /\ row_f' = [row_f EXCEPT ![l] = FileStatsRow(read_spectrogram(l))]
             /\ task' = [task EXCEPT ![l] = "file_file_stats"]
        ELSE /\ row_f' = row_f
             /\ task' = [task EXCEPT ![l] = "failed"]
    /\ UNCHANGED <<db_rw, nprocs, spectrograms, statistics, match_stats,
                   writes, orch, models>>
    /\ UNCHANGED <<ffsVars, fsVars, bxyVars, sgVars>>

\* lines 213-214: file_file_stats(df_one, spec_one, normal_one, labels_df, config)
RunStatsFileFileStats(l) ==
    /\ task[l] = "file_file_stats"
    /\ \E ok \in BOOLEAN :
        IF ok /\ ~FileFileStatsRaises(l)
        THEN /\ match_stats' = [match_stats EXCEPT
                    ![l] = FileFileStatsDict(l, read_spectrogram(l))]
             /\ task' = [task EXCEPT ![l] = "write_file_stats"]
        ELSE /\ match_stats' = match_stats
             /\ task' = [task EXCEPT ![l] = "failed"]
    /\ UNCHANGED <<db_rw, nprocs, spectrograms, statistics, row_f,
                   writes, orch, models>>
    /\ UNCHANGED <<ffsVars, fsVars, bxyVars, sgVars>>

\* line 215: write_file_stats(idx_one, row_f, match_stats, config)
RunStatsWrite(l) ==
    /\ task[l] = "write_file_stats"
    /\ statistics' = write_file_stats(l, row_f[l], match_stats[l])
    /\ writes' = [writes EXCEPT ![l] = @ + 1]
    /\ task' = [task EXCEPT ![l] = "done"]
    /\ UNCHANGED <<db_rw, nprocs, spectrograms, row_f, match_stats, orch, models>>
    /\ UNCHANGED <<ffsVars, fsVars, bxyVars, sgVars>>

\* ------------------------------------------------------------------------
\* model_fit_algo
\* ------------------------------------------------------------------------
\* variant: the results are never inspected, a failed call counts as finished
MapNextSwallow ==
    /\ orch.pc = "map"
    /\ orch.idx <= NumLabels
    /\ task[orch.idx] \in {"done", "failed"}
    /\ orch' = IF orch.idx = NumLabels
               THEN [pc |-> "build_X_y", idx |-> NumLabels + 1, bird |-> 1]
               ELSE [orch EXCEPT !.idx = @ + 1]
    /\ UNCHANGED <<db_rw, nprocs, spectrograms, statistics, task, row_f,
                   match_stats, writes, models>>
    /\ UNCHANGED <<ffsVars, fsVars, bxyVars, sgVars>>

\* variant: a result is handed over as soon as its call has been started
MapNextEarly ==
    /\ orch.pc = "map"
    /\ orch.idx <= NumLabels
    /\ task[orch.idx] \notin {"pending", "failed"}
    /\ orch' = IF orch.idx = NumLabels
               THEN [pc |-> "build_X_y", idx |-> NumLabels + 1, bird |-> 1]
               ELSE [orch EXCEPT !.idx = @ + 1]
    /\ UNCHANGED <<db_rw, nprocs, spectrograms, statistics, task, row_f,
                   match_stats, writes, models>>
    /\ UNCHANGED <<ffsVars, fsVars, bxyVars, sgVars>>

\* lines 342-345: the next result of executor.map, in label order
MapNext ==
    /\ orch.pc = "map"
    /\ orch.idx <= NumLabels
    /\ task[orch.idx] = "done"
    /\ orch' = IF orch.idx = NumLabels
               THEN [pc |-> "build_X_y", idx |-> NumLabels + 1, bird |-> 1]
               ELSE [orch EXCEPT !.idx = @ + 1]
    /\ UNCHANGED <<db_rw, nprocs, spectrograms, statistics, task, row_f,
                   match_stats, writes, models>>
    /\ UNCHANGED <<ffsVars, fsVars, bxyVars, sgVars>>

\* lines 342-345: the awaited result is an exception; executor.map cancels
\* the calls that have not started and the exception leaves the loop
MapRaise ==
    /\ orch.pc = "map"
    /\ orch.idx <= NumLabels
    /\ task[orch.idx] = "failed"
    /\ task' = [l \in Labels |-> IF task[l] = "pending" THEN "cancelled" ELSE task[l]]
    /\ orch' = [orch EXCEPT !.pc = "shutdown"]
    /\ UNCHANGED <<db_rw, nprocs, spectrograms, statistics, row_f,
                   match_stats, writes, models>>
    /\ UNCHANGED <<ffsVars, fsVars, bxyVars, sgVars>>

\* line 341: leaving the with block waits for the calls still running
ExecutorExit ==
    /\ orch.pc = "shutdown"
    /\ Running = {}
    /\ orch' = [orch EXCEPT !.pc = "raised"]
    /\ UNCHANGED <<db_rw, nprocs, spectrograms, statistics, task, row_f,
                   match_stats, writes, models>>
    /\ UNCHANGED <<ffsVars, fsVars, bxyVars, sgVars>>

\* line 354: build_X_y(labels_df[bird], config)
BuildXy ==
    /\ orch.pc = "build_X_y"
    /\ orch' = [orch EXCEPT !.pc = "fit_model"]
    /\ UNCHANGED <<db_rw, nprocs, spectrograms, statistics, task, row_f,
                   match_stats, writes, models>>
    /\ UNCHANGED <<ffsVars, fsVars, bxyVars, sgVars>>

\* line 357: fit_model(X, y, config)
FitModel ==
    /\ orch.pc = "fit_model"
    /\ orch' = [orch EXCEPT !.pc = "write_model"]
    /\ UNCHANGED <<db_rw, nprocs, spectrograms, statistics, task, row_f,
                   match_stats, writes, models>>
    /\ UNCHANGED <<ffsVars, fsVars, bxyVars, sgVars>>

\* line 358: write_model(bird, model, scaler, config), then the next species
WriteModel ==
    /\ orch.pc = "write_model"
    /\ models' = models \cup {orch.bird}
    /\ orch' = IF orch.bird = NumBirds
               THEN [orch EXCEPT !.pc = "finished"]
               ELSE [orch EXCEPT !.pc = "build_X_y", !.bird = @ + 1]
    /\ UNCHANGED <<db_rw, nprocs, spectrograms, statistics, task, row_f,
                   match_stats, writes>>
    /\ UNCHANGED <<ffsVars, fsVars, bxyVars, sgVars>>

\* run_stats called again for one label, alone, after model_fit_algo raised
Rerun(l) ==
    /\ orch.pc = "raised"
    /\ task[l] \in {"failed", "cancelled"}
    /\ Running = {}
    /\ task' = [task EXCEPT ![l] = "file_stats"]
    /\ UNCHANGED <<db_rw, nprocs, spectrograms, statistics, row_f,
                   match_stats, writes, orch, models>>
    /\ UNCHANGED <<ffsVars, fsVars, bxyVars, sgVars>>

Init ==
    /\ FFSIdle
    /\ FSIdle
    /\ BXYIdle
    /\ SGIdle
    /\ db_rw \in BOOLEAN
    /\ nprocs \in 1..MaxProcs
    /\ spectrograms = InitialSpectrograms
    /\ statistics = [l \in Labels |-> NoRecord]
    /\ task = [l \in Labels |-> "pending"]
    /\ row_f = [l \in Labels |-> <<>>]
    /\ match_stats = [l \in Labels |-> <<>>]
    /\ writes = [l \in Labels |-> 0]
    /\ orch = [pc |-> "map", idx |-> 1, bird |-> 1]
    /\ models = {}

Next ==
    \/ \E l \in Labels : Start(l)
    \/ \E l \in Labels : RunStatsFileStats(l)
    \/ \E l \in Labels : RunStatsFileFileStats(l)
    \/ \E l \in Labels : RunStatsWrite(l)
    \/ MapNext
    \/ MapRaise
    \/ ExecutorExit
    \/ BuildXy
    \/ FitModel
    \/ WriteModel
    \/ \E l \in Labels : Rerun(l)

Spec == Init /\ [][Next]_vars

\* ------------------------------------------------------------------------
\* file_file_stats, one loop iteration at a time (SpecFFS)
\* ------------------------------------------------------------------------
Min(a, b) == IF a < b THEN a ELSE b
Max(a, b) == IF a > b THEN a ELSE b

\* spectrogram shapes (frequency bins x time bins)
Shapes == [h : 1..MaxH, w : 1..MaxW]

\* bounding boxes lying inside a spectrogram of shape s, of positive area
BoxesIn(s) ==
    {b \in [x_min : 0..MaxW, x_max : 0..MaxW, y_min : 0..MaxH, y_max : 0..MaxH] :
        /\ b.x_min < b.x_max /\ b.x_max <= s.w
        /\ b.y_min < b.y_max /\ b.y_max <= s.h}

\* pools_df.loc[label].values[0]: a list of 0-based row positions
TemplateLists == UNION {[1..k -> 0..(MaxBoxes - 1)] : k \in 0..MaxBoxes}

\* pool label lists: the non-empty sublists of the labels
PoolLabels == {SelectSeq(LabelsIndex, LAMBDA x : x \in S) : S \in (SUBSET Labels) \ {{}}}

Pools == {NoPool} \cup [configured : {TRUE}, labels : PoolLabels]


\* the best score minMaxLoc reports, kept as one opaque non-zero value
MatchVals == {1}

\* df_two.iloc[positions]: IndexError when a position is out of bounds
IlocRaises(table, positions) == \E i \in 1..Len(positions) : positions[i] >= Len(table)

\* extract_segments: the segment of a box is spec_two[y_min:y_max, x_min:x_max]
SegmentShape(box) == [h |-> box.y_max - box.y_min, w |-> box.x_max - box.x_min]

\* rows of a[lo:hi, :] for an array of h rows (a slice is clipped)
SliceRows(h, lo, hi) ==
    IF Min(hi, h) > Min(lo, h) THEN Min(hi, h) - Min(lo, h) ELSE 0

\* lines 169-171
YMinTarget(box, buffer) ==
    IF box.y_min > buffer THEN box.y_min - buffer ELSE 0

\* lines 174-176
YMaxTarget(box, buffer, two) ==
    IF box.y_max < two.h - buffer THEN box.y_max + buffer ELSE two.h

\* variant: strict comparisons in the size test
EligibleStrict(box, ymin, ymax, one) ==
    /\ ymax - ymin < one.h
    /\ box.x_max - box.x_min < one.w

\* lines 182-183
Eligible(box, ymin, ymax, one) ==
    /\ ymax - ymin <= one.h
    /\ box.x_max - box.x_min <= one.w

\* cv2.matchTemplate rejects a template larger than the image
MatchTemplateRaises(image, templ) == templ.h > image.h \/ templ.w > image.w

RECURSIVE SumLens(_, _)
SumLens(d, keys) ==
    IF keys = {} THEN 0
    ELSE LET k == CHOOSE x \in keys : TRUE
         IN Len(d[k]) + SumLens(d, keys \ {k})

\* template rows already in the mapping
UsedRows == SumLens(match_stats_dict, DOMAIN match_stats_dict)

\* lines 119-140: the cursor and the empty mapping
FFSEntry ==
    /\ ffs_pc = "entry"
    /\ items' = Items(db_rw, template_pool, RunStatsLabels(idx_one))
    /\ pos' = 1
    /\ ffs_pc' = "items"
    /\ UNCHANGED <<idx_one, spec_one, template_pool, frequency_buffer, idx_two,
                   spec_two, df_two, idx, y_min_target, y_max_target,
                   match_stats_dict, overwritten>>
    /\ UNCHANGED <<db_rw, statsVars, fsVars, bxyVars, sgVars>>

\* line 143 exhausted, line 190
FFSReturn ==
    /\ ffs_pc = "items"
    /\ pos > Len(items)
    /\ ffs_pc' = "returned"
    /\ UNCHANGED <<idx_one, spec_one, template_pool, frequency_buffer, items, pos,
                   idx_two, spec_two, df_two, idx, y_min_target,
                   y_max_target, match_stats_dict, overwritten>>
    /\ UNCHANGED <<db_rw, statsVars, fsVars, bxyVars, sgVars>>

\* line 145: item['label'] on a string
FFSItemRaise ==
    /\ ffs_pc = "items"
    /\ pos <= Len(items)
    /\ ItemLabelRaises(items[pos])
    /\ ffs_pc' = "TypeError"
    /\ UNCHANGED <<idx_one, spec_one, template_pool, frequency_buffer, items, pos,
                   idx_two, spec_two, df_two, idx, y_min_target,
                   y_max_target, match_stats_dict, overwritten>>
    /\ UNCHANGED <<db_rw, statsVars, fsVars, bxyVars, sgVars>>

\* the shape cursor_item_to_data may return for a label: the source's own
\* when the cursor runs over labels_df and reaches the source's label, any
\* shape otherwise (a pool may be read from another database)
CandidateShapes(label) ==
    IF label = idx_one /\ ~template_pool.configured THEN {spec_one} ELSE Shapes

\* the positions the down-selection takes from a table of n rows: the
\* pool's list for the label, or every row when no pool is configured
Positions(n) ==
    IF template_pool.configured THEN TemplateLists
    ELSE {[i \in 1..n |-> i - 1]}

\* variant: the rows of the mapping are allocated before the down-selection
ZerosBeforeIloc(n, selected) == [i \in 1..n |-> ZeroRow]

\* line 163: np.zeros((df_two.shape[0], 3))
Zeros(n, selected) == [i \in 1..Len(selected) |-> ZeroRow]

\* lines 145-166: the next candidate (a spectrogram of shape two and a box
\* table of n rows), its table down-selected, its rows zeroed
FFSLoad ==
    /\ ffs_pc = "items"
    /\ pos <= Len(items)
    /\ ~ItemLabelRaises(items[pos])
    /\ \E two \in CandidateShapes(items[pos].label) :
       \E n \in 0..MaxBoxes :
       \E positions \in Positions(n) :
          /\ Len(positions) <= MaxBoxes - UsedRows
          /\ idx_two' = items[pos].label
          /\ spec_two' = two
          /\ IF IlocRaises([i \in 1..n |-> i], positions)
             THEN /\ ffs_pc' = "IndexError"
                  /\ UNCHANGED <<df_two, match_stats_dict, overwritten, pos>>
             ELSE \E rows \in [{positions[i] : i \in 1..Len(positions)} -> BoxesIn(two)] :
                  LET selected == [i \in 1..Len(positions) |-> rows[positions[i]]]
                      label == items[pos].label
                  IN /\ df_two' = selected
                     /\ match_stats_dict' =
                           [k \in DOMAIN match_stats_dict \cup {label} |->
                               IF k = label THEN Zeros(n, selected)
                               ELSE match_stats_dict[k]]
                     /\ overwritten' =
                           [k \in DOMAIN overwritten \cup {label} |->
                               IF k = label THEN [i \in 1..Len(positions) |-> <<>>]
                               ELSE overwritten[k]]
                     /\ IF Len(positions) = 0
                        THEN ffs_pc' = "items" /\ pos' = pos + 1
                        ELSE ffs_pc' = "rows" /\ pos' = pos
    /\ idx' = 0
    /\ UNCHANGED <<idx_one, spec_one, template_pool, frequency_buffer, items,
                   y_min_target, y_max_target>>
    /\ UNCHANGED <<db_rw, statsVars, fsVars, bxyVars, sgVars>>

\* variant: the location is kept in the coordinates of the stripe
StoredRowStripe(max_val, max_x, max_y, ymin) == <<max_val, max_x, max_y>>

\* lines 187-189: the row written for a matched template
StoredRow(max_val, max_x, max_y, ymin) == <<max_val, max_x, max_y + ymin>>

\* lines 167-189: one template
FFSRow ==
    /\ ffs_pc = "rows"
    /\ LET box == df_two[idx + 1]
           ymin == YMinTarget(box, frequency_buffer)
           ymax == YMaxTarget(box, frequency_buffer, spec_two)
           image == [h |-> SliceRows(spec_one.h, ymin, ymax), w |-> spec_one.w]
           templ == SegmentShape(box)
           last == idx + 1 = Len(df_two)
       IN /\ y_min_target' = ymin
          /\ y_max_target' = ymax
          /\ IF ~Eligible(box, ymin, ymax, spec_one)
             THEN /\ idx' = idx + 1
                  /\ ffs_pc' = IF last THEN "items" ELSE "rows"
                  /\ pos' = IF last THEN pos + 1 ELSE pos
                  /\ UNCHANGED <<match_stats_dict, overwritten>>
             ELSE IF MatchTemplateRaises(image, templ)
                     THEN /\ ffs_pc' = "cv2.error"
                          /\ UNCHANGED <<idx, pos, match_stats_dict, overwritten>>
                     ELSE \E max_val \in MatchVals :
                          \E max_x \in 0..(image.w - templ.w) :
                          \E max_y \in 0..(image.h - templ.h) :
                             LET stored == StoredRow(max_val, max_x, max_y, ymin)
                             IN /\ match_stats_dict' =
                                    [match_stats_dict EXCEPT ![idx_two][idx + 1] = stored]
                                /\ overwritten' =
                                    [overwritten EXCEPT ![idx_two][idx + 1] = stored]
                                /\ idx' = idx + 1
                                /\ ffs_pc' = IF last THEN "items" ELSE "rows"
                                /\ pos' = IF last THEN pos + 1 ELSE pos
    /\ UNCHANGED <<idx_one, spec_one, template_pool, frequency_buffer, items,
                   idx_two, spec_two, df_two>>
    /\ UNCHANGED <<db_rw, statsVars, fsVars, bxyVars, sgVars>>

\* a call of file_file_stats made by run_stats(idx_one)
InitFFS ==
    /\ db_rw \in BOOLEAN
    /\ StatsIdle
    /\ FSIdle
    /\ BXYIdle
    /\ SGIdle
    /\ idx_one \in Labels
    /\ spec_one \in Shapes
    /\ template_pool \in Pools
    /\ frequency_buffer \in 0..MaxBuf
    /\ items = <<>>
    /\ pos = 1
    /\ idx_two = 0
    /\ spec_two = [h |-> 1, w |-> 1]
    /\ df_two = <<>>
    /\ idx = 0
    /\ y_min_target = 0
    /\ y_max_target = 0
    /\ match_stats_dict = <<>>
    /\ overwritten = <<>>
    /\ ffs_pc = "entry"

NextFFS ==
    \/ FFSEntry
    \/ FFSReturn
    \/ FFSItemRaise
    \/ FFSLoad
    \/ FFSRow

SpecFFS == InitFFS /\ [][NextFFS]_vars

\* ------------------------------------------------------------------------
\* file_stats, one block at a time (SpecFS)
\* ------------------------------------------------------------------------
\* an entry of the row: the statistic, what it is taken over, and its value
\* as a fraction num/den (for a part of the spectrogram, whose contents are
\* not modelled, the row range instead)
Entry(stat, of, num, den) == <<stat, of, num, den>>
ZeroEntry == Entry("zero", "", 0, 1)

\* np.array_split(raw_spec, k) on h rows: k sections, the first h % k of
\* size h \div k + 1, the others of size h \div k
ArraySplitSize(h, k, i) == IF i <= h % k THEN h \div k + 1 ELSE h \div k
ArraySplitLo(h, k, i) == (i - 1) * (h \div k) + Min(i - 1, h % k)

\* variant: chunks of ceil(h / k) rows, the last ones cut at the end
ArraySplitCeil(h, k) ==
    LET c == (h + k - 1) \div k
    IN [i \in 1..k |-> [lo |-> Min((i - 1) * c, h), hi |-> Min(i * c, h)]]

\* variant: the larger sections come last
ArraySplitLargerLast(h, k) ==
    [i \in 1..k |->
        [lo |-> (i - 1) * (h \div k) + Max(0, i - 1 - (k - (h % k))),
         hi |-> i * (h \div k) + Max(0, i - (k - (h % k)))]]

ArraySplit(h, k) ==
    [i \in 1..k |-> [lo |-> ArraySplitLo(h, k, i),
                     hi |-> ArraySplitLo(h, k, i) + ArraySplitSize(h, k, i)]]

\* stats.describe(band, axis=None): minmax, mean, variance of the rows
\* lo..hi-1; it raises ValueError on an empty array
DescribeRaises(band) == band.hi <= band.lo
Describe(of, band) ==
    [min |-> Entry("min", of, band.lo, band.hi),
     max |-> Entry("max", of, band.lo, band.hi),
     mean |-> Entry("mean", of, band.lo, band.hi),
     variance |-> Entry("variance", of, band.lo, band.hi)]

RECURSIVE SeqSum(_)
SeqSum(q) == IF q = <<>> THEN 0 ELSE Head(q) + SeqSum(Tail(q))
SeqMin(q) == CHOOSE x \in {q[i] : i \in 1..Len(q)} : \A j \in 1..Len(q) : x <= q[j]
SeqMax(q) == CHOOSE x \in {q[i] : i \in 1..Len(q)} : \A j \in 1..Len(q) : x >= q[j]

\* lines 68-69: the columns describe() is taken over
Column(table, c) ==
    [i \in 1..Len(table) |->
        CASE c = "width" -> table[i].x_max - table[i].x_min
          [] c = "height" -> table[i].y_max - table[i].y_min
          [] c = "y_min" -> table[i].y_min]
Columns == <<"width", "height", "y_min">>

\* variant: the population deviation (divisor n) in place of the sample one
DescribeTablePopulation(table) ==
    IF Len(table) = 0
    THEN [len |-> 2, min |-> <<>>, max |-> <<>>, mean |-> <<>>, std |-> <<>>]
    ELSE LET n == Len(table)
             col(j) == Column(table, Columns[j])
             sq(j) == [i \in 1..n |-> col(j)[i] * col(j)[i]]
         IN [len |-> 8,
             min |-> [j \in 1..3 |-> Entry("min", Columns[j], SeqMin(col(j)), 1)],
             max |-> [j \in 1..3 |-> Entry("max", Columns[j], SeqMax(col(j)), 1)],
             mean |-> [j \in 1..3 |-> Entry("mean", Columns[j], SeqSum(col(j)), n)],
             std |-> [j \in 1..3 |-> Entry("std", Columns[j],
                         n * SeqSum(sq(j)) - SeqSum(col(j)) * SeqSum(col(j)),
                         n * n)]]

\* line 70: describe() of an empty table has the two rows count and unique;
\* of a table with rows the eight rows count, mean, std, min, 25%, 50%,
\* 75%, max (std is the sample deviation: variance num/den under a root,
\* den = 0 for a single row)
DescribeTable(table) ==
    IF Len(table) = 0
    THEN [len |-> 2, min |-> <<>>, max |-> <<>>, mean |-> <<>>, std |-> <<>>]
    ELSE LET n == Len(table)
             col(j) == Column(table, Columns[j])
             sq(j) == [i \in 1..n |-> col(j)[i] * col(j)[i]]
         IN [len |-> 8,
             min |-> [j \in 1..3 |-> Entry("min", Columns[j], SeqMin(col(j)), 1)],
             max |-> [j \in 1..3 |-> Entry("max", Columns[j], SeqMax(col(j)), 1)],
             mean |-> [j \in 1..3 |-> Entry("mean", Columns[j], SeqSum(col(j)), n)],
             std |-> [j \in 1..3 |-> Entry("std", Columns[j],
                         n * SeqSum(sq(j)) - SeqSum(col(j)) * SeqSum(col(j)),
                         n * (n - 1))]]

\* lines 74-75
RawRow(d) == <<d.min, d.max, d.mean, d.variance>>

RECURSIVE BandRows(_)
\* lines 78-79
BandRows(ds) ==
    IF ds = <<>> THEN <<>> ELSE RawRow(Head(ds)) \o BandRows(Tail(ds))

\* variant: nothing is appended for a table without rows
SegmentRowsNoSentinel(st) ==
    IF st.len = 2 THEN <<>>
    ELSE st.min \o st.max \o st.mean \o st.std

\* lines 83-89
SegmentRows(st) ==
    IF st.len = 2 THEN [i \in 1..12 |-> ZeroEntry]
    ELSE st.min \o st.max \o st.mean \o st.std

\* the position of a box in the listing of a table: by x_min, x_max, y_min,
\* y_max
BoxKey(b) ==
    ((b.x_min * (MaxW + 1) + b.x_max) * (MaxH + 1) + b.y_min) * (MaxH + 1) + b.y_max

\* the box tables of n rows a spectrogram of shape s may have, each listed
\* once (rows in ascending position): the boxes lie in the lowest MaxH
\* frequency bins
BoxTables(s, n) ==
    {t \in [1..n -> BoxesIn(s)] :
        \A i \in 1..(n - 1) : BoxKey(t[i]) <= BoxKey(t[i + 1])}

\* lines 50-59: the label's table and spectrogram, from the database or
\* generated, and the statistics of the whole raw spectrogram
FSRead ==
    /\ fs_pc = "entry"
    /\ \E shape \in [h : 1..MaxRows, w : 1..MaxW] :
       \E n \in 0..MaxBoxes :
       \E table \in BoxTables(shape, n) :
          /\ spec' = shape
          /\ df' = table
          /\ row' = RawRow(Describe("raw", [lo |-> 0, hi |-> shape.h]))
    /\ fs_pc' = "bands"
    /\ UNCHANGED <<num_frequency_bands, freq_bands, freq_bands_stats, df_stats>>
    /\ UNCHANGED <<db_rw, statsVars, ffsVars, bxyVars, sgVars>>

\* lines 62-65: the bands and their statistics
FSBands ==
    /\ fs_pc = "bands"
    /\ freq_bands' = ArraySplit(spec.h, num_frequency_bands)
    /\ IF \E i \in 1..Len(freq_bands') : DescribeRaises(freq_bands'[i])
       THEN /\ fs_pc' = "ValueError"
            /\ UNCHANGED freq_bands_stats
       ELSE /\ freq_bands_stats' =
                  [i \in 1..Len(freq_bands') |-> Describe("band", freq_bands'[i])]
            /\ fs_pc' = "segments"
    /\ UNCHANGED <<num_frequency_bands, df, spec, df_stats, row>>
    /\ UNCHANGED <<db_rw, statsVars, ffsVars, bxyVars, sgVars>>

\* lines 68-70: the segment statistics
FSSegments ==
    /\ fs_pc = "segments"
    /\ df_stats' = DescribeTable(df)
    /\ fs_pc' = "row"
    /\ UNCHANGED <<num_frequency_bands, df, spec, freq_bands, freq_bands_stats, row>>
    /\ UNCHANGED <<db_rw, statsVars, ffsVars, bxyVars, sgVars>>

\* lines 78-94: the row completed, flattened and returned
FSRow ==
    /\ fs_pc = "row"
    /\ row' = row \o BandRows(freq_bands_stats) \o SegmentRows(df_stats)
    /\ fs_pc' = "returned"
    /\ UNCHANGED <<num_frequency_bands, df, spec, freq_bands, freq_bands_stats,
                   df_stats>>
    /\ UNCHANGED <<db_rw, statsVars, ffsVars, bxyVars, sgVars>>

InitFS ==
    /\ db_rw \in BOOLEAN
    /\ StatsIdle
    /\ FFSIdle
    /\ BXYIdle
    /\ SGIdle
    /\ num_frequency_bands \in 1..MaxBands
    /\ df = <<>>
    /\ spec = [h |-> 1, w |-> 1]
    /\ freq_bands = <<>>
    /\ freq_bands_stats = <<>>
    /\ df_stats = [len |-> 0, min |-> <<>>, max |-> <<>>, mean |-> <<>>, std |-> <<>>]
    /\ row = <<>>
    /\ fs_pc = "entry"

NextFS ==
    \/ FSRead
    \/ FSBands
    \/ FSSegments
    \/ FSRow

SpecFS == InitFS /\ [][NextFS]_vars

\* ------------------------------------------------------------------------
\* build_X_y, one block at a time (SpecBXY)
\* ------------------------------------------------------------------------
\* a value of the statistics: the label of the file it belongs to, for a
\* match value the candidate label, the template and the column, and
\* whether it is finite ("fin"), not a number ("nan") or infinite ("inf")
StatValue(l, c, t, j, v) == [label |-> l, cand |-> c, t |-> t, col |-> j, v |-> v]

\* what may be wrong with the collection: nothing, the record of a label
\* missing, or a non-finite value in the first-order row or in the match
\* statistics of a label
Anomalies ==
    {[kind |-> "none", label |-> 0, v |-> "fin"]}
        \cup [kind : {"missing"}, label : Labels, v : {"fin"}]
        \cup [kind : {"row", "match"}, label : Labels, v : {"nan", "inf"}]

\* number of template rows of each label (of its down-selected table)
TemplateCounts == [Labels -> 0..MaxBoxes]

\* the keys of the mapping run_stats persisted: the pool's labels, or every
\* label of labels_df
MatchKeys(pool) ==
    IF pool.configured THEN {pool.labels[i] : i \in 1..Len(pool.labels)}
    ELSE Labels

\* the record write_file_stats persisted for label l
StatsRecord(l, counts, pool, an) ==
    IF an.kind = "missing" /\ an.label = l THEN NoRecord
    ELSE LET first == CHOOSE c \in MatchKeys(pool) : \A d \in MatchKeys(pool) : c <= d
         IN [written |-> TRUE,
             row |-> [j \in 1..RowLen |->
                        StatValue(l, 0, 0, j,
                            IF an.kind = "row" /\ an.label = l /\ j = 1
                            THEN an.v ELSE "fin")],
             match |-> [c \in MatchKeys(pool) |->
                          [t \in 1..counts[c] |->
                             [j \in 1..3 |->
                                StatValue(l, c, t, j,
                                    IF /\ an.kind = "match" /\ an.label = l
                                       /\ c = first /\ t = 1 /\ j = 1
                                    THEN an.v ELSE "fin")]]]]

\* cursor_item_to_stats: the row and the mapping of a record
cursor_item_to_stats(rec) == <<rec.row, rec.match>>

\* lines 234-239: the candidate labels
GetFileFileStatsFor(pool, column) ==
    IF pool.configured THEN pool.labels
    ELSE SelectSeq(LabelsIndex, LAMBDA x : column[x] = 1)

\* variant: the position in the order of arrival
MonoIdxArrival(l, arrived) == arrived + 1

\* line 246: labels_df.index.get_loc(item['label'])
MonoIdx(l, arrived) == CHOOSE i \in 1..Len(LabelsIndex) : LabelsIndex[i] = l

\* np.nan_to_num of a value: not-a-number becomes zero, infinity the
\* largest finite number
NanToNum(e) ==
    [e EXCEPT !.v = CASE e.v = "nan" -> "zero"
                      [] e.v = "inf" -> "max"
                      [] OTHER -> e.v]

RECURSIVE VStack(_)
\* np.vstack of a list of (k, 3) arrays; it raises on an empty list
VStack(arrays) ==
    IF arrays = <<>> THEN <<>> ELSE Head(arrays) \o VStack(Tail(arrays))
VStackRaises(arrays) == arrays = <<>>

\* variant: one row for each candidate that has rows
TmpFirstRows(kept) ==
    VStack([x \in 1..Len(kept) |->
               IF kept[x] = <<>> THEN <<>> ELSE <<kept[x][1]>>])

\* lines 257-258: _tmp[o_idx], the kept arrays of a file stacked
Tmp(kept) == VStack([x \in 1..Len(kept) |-> kept[x]])

RECURSIVE Flatten(_)
\* reshape(shape[0], -1) of one file's rows
Flatten(rows) ==
    IF rows = <<>> THEN <<>> ELSE Head(rows) \o Flatten(Tail(rows))

\* lines 234-243: the candidates, the cursor and the two lists of None
BXYEntry ==
    /\ bxy_pc = "entry"
    /\ get_file_file_stats_for' = GetFileFileStatsFor(pools_df, labels_bird)
    /\ unread' = {l \in Labels : collection[l].written}
    /\ file_stats' = [i \in 1..NumLabels |-> None]
    /\ file_file_stats' = [i \in 1..NumLabels |-> None]
    /\ bxy_pc' = "items"
    /\ UNCHANGED <<labels_bird, pools_df, collection, tmp, X, y>>
    /\ UNCHANGED <<db_rw, statsVars, ffsVars, fsVars, sgVars>>

\* lines 244-248: the next record of the cursor, in whatever order the
\* cursor returns the records
BXYItem ==
    /\ bxy_pc = "items"
    /\ \E l \in unread :
          LET stats == cursor_item_to_stats(collection[l])
              arrived == Cardinality({k \in Labels : collection[k].written}) -
                            Cardinality(unread)
              mono_idx == MonoIdx(l, arrived)
              keep == get_file_file_stats_for
          IN /\ unread' = unread \ {l}
             /\ IF \E i \in 1..Len(keep) : keep[i] \notin DOMAIN stats[2]
                THEN /\ bxy_pc' = "KeyError"
                     /\ UNCHANGED <<file_stats, file_file_stats>>
                ELSE /\ file_stats' =
                          [file_stats EXCEPT ![mono_idx] = [set |-> TRUE, val |-> stats[1]]]
                     /\ file_file_stats' =
                          [file_file_stats EXCEPT ![mono_idx] =
                              [set |-> TRUE,
                               val |-> [i \in 1..Len(keep) |-> stats[2][keep[i]]]]]
                     /\ bxy_pc' = "items"
    /\ UNCHANGED <<labels_bird, pools_df, collection, get_file_file_stats_for,
                   tmp, X, y>>
    /\ UNCHANGED <<db_rw, statsVars, ffsVars, fsVars, sgVars>>

\* lines 250-260: the cursor is exhausted; nan_to_num of the first-order
\* rows, then every file's kept arrays stacked.  A position still None makes
\* np.array or len() raise (which of the two depends on the numpy at hand),
\* an empty list of candidates makes np.vstack raise
BXYStack ==
    /\ bxy_pc = "items"
    /\ unread = {}
    /\ IF \E i \in 1..NumLabels : ~file_file_stats[i].set
       THEN /\ bxy_pc' \in {"TypeError", "ValueError"}
            /\ UNCHANGED <<file_stats, tmp>>
       ELSE IF \E i \in 1..NumLabels : VStackRaises(file_file_stats[i].val)
            THEN /\ bxy_pc' = "ValueError"
                 /\ UNCHANGED <<file_stats, tmp>>
            ELSE /\ file_stats' =
                      [i \in 1..NumLabels |->
                          [set |-> TRUE,
                           val |-> [j \in 1..Len(file_stats[i].val) |->
                                       NanToNum(file_stats[i].val[j])]]]
                 /\ tmp' = [i \in 1..NumLabels |->
                              [set |-> TRUE, val |-> Tmp(file_file_stats[i].val)]]
                 /\ bxy_pc' = "stacked"
    /\ UNCHANGED <<labels_bird, pools_df, collection, get_file_file_stats_for,
                   unread, file_file_stats, X, y>>
    /\ UNCHANGED <<db_rw, statsVars, ffsVars, fsVars, sgVars>>

\* lines 262-263: the rows joined to the flattened match rows, and the labels
BXYReturn ==
    /\ bxy_pc = "stacked"
    /\ X' = [i \in 1..NumLabels |-> file_stats[i].val \o Flatten(tmp[i].val)]
    /\ y' = [i \in 1..NumLabels |-> labels_bird[LabelsIndex[i]]]
    /\ bxy_pc' = "returned"
    /\ UNCHANGED <<labels_bird, pools_df, collection, get_file_file_stats_for,
                   unread, file_stats, file_file_stats, tmp>>
    /\ UNCHANGED <<db_rw, statsVars, ffsVars, fsVars, sgVars>>

\* a call build_X_y(labels_df[bird], config) on a collection run_stats left
InitBXY ==
    /\ db_rw = TRUE
    /\ StatsIdle
    /\ FFSIdle
    /\ FSIdle
    /\ SGIdle
    /\ labels_bird \in [Labels -> {0, 1}]
    /\ pools_df \in Pools
    /\ \E counts \in TemplateCounts :
       \E an \in Anomalies :
          collection = [l \in Labels |-> StatsRecord(l, counts, pools_df, an)]
    /\ get_file_file_stats_for = <<>>
    /\ unread = {}
    /\ file_stats = [l \in Labels |-> None]
    /\ file_file_stats = [l \in Labels |-> None]
    /\ tmp = [l \in Labels |-> None]
    /\ X = <<>>
    /\ y = <<>>
    /\ bxy_pc = "entry"

NextBXY ==
    \/ BXYEntry
    \/ BXYItem
    \/ BXYStack
    \/ BXYReturn

SpecBXY == InitBXY /\ [][NextBXY]_vars

\* ------------------------------------------------------------------------
\* Spectrogram (opensoundscape/spectrogram.py), one call at a time (SpecSG)
\* ------------------------------------------------------------------------
\* a float as a fraction <<num, den>> with den >= 0; den = 0 stands for a
\* value that is not finite
RECURSIVE GCD(_, _)
GCD(a, b) == IF b = 0 THEN a ELSE GCD(b, a % b)
Frac(n, d) ==
    LET g == GCD(IF n < 0 THEN -n ELSE n, IF d < 0 THEN -d ELSE d)
    IN IF g = 0 THEN <<0, 0>>
       ELSE IF d < 0 THEN <<(-n) \div g, (-d) \div g>> ELSE <<n \div g, d \div g>>
Whole(n) == <<n, 1>>
FracAdd(a, b) == Frac(a[1] * b[2] + b[1] * a[2], a[2] * b[2])
FracSub(a, b) == Frac(a[1] * b[2] - b[1] * a[2], a[2] * b[2])
FracMul(a, b) == Frac(a[1] * b[1], a[2] * b[2])
FracDiv(a, b) == Frac(a[1] * b[2], a[2] * b[1])
\* a comparison with a value that is not finite is false
FracLess(a, b) == a[2] > 0 /\ b[2] > 0 /\ a[1] * b[2] < b[1] * a[2]

\* a 2d array seen through a slice: the buffer and the index ranges
\* [r0, r1) and [c0, c1)
View(b, r0, r1, c0, c1) == [buf |-> b, r0 |-> r0, r1 |-> r1, c0 |-> c0, c1 |-> c1]
ViewShape(v) == <<v.r1 - v.r0, v.c1 - v.c0>>

\* the contents of the array hp holds behind the view v
Contents(v, hp) ==
    [r \in 1..(v.r1 - v.r0) |->
        [c \in 1..(v.c1 - v.c0) |-> hp[v.buf][v.r0 + r][v.c0 + c]]]

\* the bounds of a[lo : hi + 1] on an axis of n entries, 0 <= lo, hi
SliceLo(n, lo) == Min(lo, n)
SliceHi(n, lo, hi) == Max(Min(hi + 1, n), Min(lo, n))

\* a[lo : hi + 1] of a 1d array
Slice(a, lo, hi) == SubSeq(a, SliceLo(Len(a), lo) + 1, SliceHi(Len(a), lo, hi))

Abs(x) == IF x < 0 THEN -x ELSE x

\* np.abs(a - x).argmin(): the first index of the entry closest to x; it
\* raises ValueError on an empty array
ArgMinRaises(a) == Len(a) = 0
ArgMin(a, x) ==
    (CHOOSE i \in 1..Len(a) :
        /\ \A j \in 1..Len(a) : Abs(a[i] - x) <= Abs(a[j] - x)
        /\ \A j \in 1..(i - 1) : Abs(a[j] - x) > Abs(a[i] - x)) - 1

\* lines 56-93: the checks of __init__ on arrays of the right kind; the
\* shapes must agree
InitRaises(v, frequencies, times) ==
    ViewShape(v) # <<Len(frequencies), Len(times)>>

\* lines 95-102: the object __init__ leaves
Spectrogram(v, frequencies, times, decibel_limits, window_samples, overlap_samples, window_type, audio_sample_rate) ==
    [made |-> TRUE,
     spectrogram |-> v,
     frequencies |-> frequencies,
     times |-> times,
     decibel_limits |-> decibel_limits,
     window_samples |-> window_samples,
     overlap_samples |-> overlap_samples,
     window_type |-> window_type,
     audio_sample_rate |-> audio_sample_rate]

AttributeNames == {"frequencies", "times", "spectrogram", "decibel_limits",
                   "window_samples", "overlap_samples", "window_type",
                   "audio_sample_rate"}

\* lines 177-178: __setattr__ raises whatever the name and the value
SetAttr(obj, name, value) == [exc |-> "AttributeError", obj |-> obj]

\* the truth value Python gives an attribute: None and 0 are false
Truthy(a) == a.set /\ a.val # 0

\* lines 201-205
WindowLength(obj) ==
    IF Truthy(obj.window_samples) /\ Truthy(obj.audio_sample_rate)
    THEN [set |-> TRUE,
          val |-> Frac(obj.window_samples.val, obj.audio_sample_rate.val)]
    ELSE NoneAttr

\* variant: the attributes are tested against None
WindowStepNotNone(obj) ==
    IF /\ obj.window_samples.set /\ obj.overlap_samples.set
       /\ obj.audio_sample_rate.set
    THEN [set |-> TRUE,
          val |-> Frac(obj.window_samples.val - obj.overlap_samples.val,
                       obj.audio_sample_rate.val)]
    ELSE NoneAttr

\* lines 207-214
WindowStep(obj) ==
    IF /\ Truthy(obj.window_samples) /\ Truthy(obj.overlap_samples)
       /\ Truthy(obj.audio_sample_rate)
    THEN [set |-> TRUE,
          val |-> Frac(obj.window_samples.val - obj.overlap_samples.val,
                       obj.audio_sample_rate.val)]
    ELSE NoneAttr

\* the entries of a 2d array
Elements(a) == {a[r][c] : r \in 1..Len(a), c \in 1..(IF Len(a) = 0 THEN 0 ELSE Len(a[1]))}

\* (x - in_lo) / (in_hi - in_lo) * (out_hi - out_lo) + out_lo
Rescale(x, in_lo, in_hi, out_lo, out_hi) ==
    FracAdd(FracMul(FracDiv(FracSub(x, in_lo), FracSub(in_hi, in_lo)),
                    FracSub(out_hi, out_lo)),
            out_lo)

\* helpers.linear_scale(array, in_range, out_range): a new array
linear_scale(a, in_range, out_range) ==
    [r \in 1..Len(a) |->
        [c \in 1..Len(a[r]) |->
            Rescale(a[r][c], Whole(in_range[1]), Whole(in_range[2]),
                    Whole(out_range[1]), Whole(out_range[2]))]]

\* helpers.min_max_scale(array, feature_range): a new array, scaled from the
\* array's own minimum and maximum; it raises on an array without entries
MinMaxScaleRaises(a) == Elements(a) = {}
min_max_scale(a, feature_range) ==
    LET finite == \A e \in Elements(a) : e[2] > 0
        lo == IF finite
              THEN CHOOSE e \in Elements(a) : \A f \in Elements(a) : ~FracLess(f, e)
              ELSE <<0, 0>>
        hi == IF finite
              THEN CHOOSE e \in Elements(a) : \A f \in Elements(a) : ~FracLess(e, f)
              ELSE <<0, 0>>
    IN [r \in 1..Len(a) |->
          [c \in 1..Len(a[r]) |->
              Rescale(a[r][c], lo, hi, Whole(feature_range[1]),
                      Whole(feature_range[2]))]]

\* _spec[_spec > max_db] = max_db; _spec[_spec < min_db] = min_db
Clamp(x, min_db, max_db) ==
    LET upper == IF FracLess(Whole(max_db), x) THEN Whole(max_db) ELSE x
    IN IF FracLess(upper, Whole(min_db)) THEN Whole(min_db) ELSE upper

\* the buffers after the array arr is stored as buffer 2
Store(hp, arr) == <<hp[1], arr>>

\* variant: the limits are applied to the receiver's own array
LimitInPlace(v, hp, min_db, max_db) ==
    [view |-> v,
     heap |-> [hp EXCEPT ![v.buf] =
                 [r \in 1..Len(hp[v.buf]) |->
                    [c \in 1..Len(hp[v.buf][r]) |->
                        IF /\ v.r0 < r /\ r <= v.r1 /\ v.c0 < c /\ c <= v.c1
                        THEN Clamp(hp[v.buf][r][c], min_db, max_db)
                        ELSE hp[v.buf][r][c]]]]]

\* lines 297-300: the limits applied to a copy of the receiver's array
LimitOnCopy(v, hp, min_db, max_db) ==
    LET _spec == Contents(v, hp)
    IN [view |-> View(2, 0, v.r1 - v.r0, 0, v.c1 - v.c0),
        heap |-> Store(hp, [r \in 1..Len(_spec) |->
                              [c \in 1..Len(_spec[r]) |->
                                  Clamp(_spec[r][c], min_db, max_db)]])]

RECURSIVE ColumnSum(_, _, _)
\* np.sum(array, 0): the sum of every column
ColumnSum(a, c, r) ==
    IF r > Len(a) THEN Whole(0) ELSE FracAdd(a[r][c], ColumnSum(a, c, r + 1))
SumAxis0(a, m) == [c \in 1..m |-> ColumnSum(a, c, 1)]

\* an argument that is None, and one that is given
NoneArg == [set |-> FALSE, val |-> <<>>]
Given(x) == [set |-> TRUE, val |-> x]
NoneStr == [set |-> FALSE, val |-> ""]

\* lines 318-333: the exception, or the arguments bandpass gives __init__
Bandpass(obj, min_f, max_f) ==
    IF min_f >= max_f \/ ArgMinRaises(obj.frequencies)
    THEN [exc |-> "ValueError", view |-> obj.spectrogram,
          frequencies |-> obj.frequencies, times |-> obj.times]
    ELSE LET lowest_index == ArgMin(obj.frequencies, min_f)
             highest_index == ArgMin(obj.frequencies, max_f)
             v == obj.spectrogram
             n == v.r1 - v.r0
         IN [exc |-> "none",
             view |-> View(v.buf, v.r0 + SliceLo(n, lowest_index),
                           v.r0 + SliceHi(n, lowest_index, highest_index),
                           v.c0, v.c1),
             frequencies |-> Slice(obj.frequencies, lowest_index, highest_index),
             times |-> obj.times]

\* variant: the times are cut one entry shorter than the columns
TrimTimesShort(obj, start_time, end_time) ==
    IF ArgMinRaises(obj.times)
    THEN [exc |-> "ValueError", view |-> obj.spectrogram,
          frequencies |-> obj.frequencies, times |-> obj.times]
    ELSE LET lowest_index == ArgMin(obj.times, start_time)
             highest_index == ArgMin(obj.times, end_time)
             v == obj.spectrogram
             m == v.c1 - v.c0
         IN [exc |-> "none",
             view |-> View(v.buf, v.r0, v.r1, v.c0 + SliceLo(m, lowest_index),
                           v.c0 + SliceHi(m, lowest_index, highest_index)),
             frequencies |-> obj.frequencies,
             times |-> Slice(obj.times, lowest_index, highest_index - 1)]

\* lines 347-357: the exception, or the arguments trim gives __init__
Trim(obj, start_time, end_time) ==
    IF ArgMinRaises(obj.times)
    THEN [exc |-> "ValueError", view |-> obj.spectrogram,
          frequencies |-> obj.frequencies, times |-> obj.times]
    ELSE LET lowest_index == ArgMin(obj.times, start_time)
             highest_index == ArgMin(obj.times, end_time)
             v == obj.spectrogram
             m == v.c1 - v.c0
         IN [exc |-> "none",
             view |-> View(v.buf, v.r0, v.r1, v.c0 + SliceLo(m, lowest_index),
                           v.c0 + SliceHi(m, lowest_index, highest_index)),
             frequencies |-> obj.frequencies,
             times |-> Slice(obj.times, lowest_index, highest_index)]

\* lines 393-409: the exception, or the array amplitude returns
Amplitude(obj, hp, freq_range) ==
    IF ~freq_range.set
    THEN [exc |-> "none",
          val |-> SumAxis0(Contents(obj.spectrogram, hp),
                           obj.spectrogram.c1 - obj.spectrogram.c0)]
    ELSE LET b == Bandpass(obj, freq_range.val[1], freq_range.val[2])
         IN IF b.exc # "none" THEN [exc |-> b.exc, val |-> <<>>]
            ELSE IF InitRaises(b.view, b.frequencies, b.times)
                 THEN [exc |-> "TypeError", val |-> <<>>]
                 ELSE [exc |-> "none",
                       val |-> SumAxis0(Contents(b.view, hp), b.view.c1 - b.view.c0)]

RECURSIVE TotalBandwidth(_)
\* line 434: sum(reject_bands[:, 1] - reject_bands[:, 0])
TotalBandwidth(bands) ==
    IF bands = <<>> THEN 0
    ELSE Head(bands)[2] - Head(bands)[1] + TotalBandwidth(Tail(bands))

RECURSIVE SubtractRejects(_, _, _, _, _)
\* lines 437-441: the exception, or the net amplitude after the reject
\* bands are subtracted
SubtractRejects(obj, hp, net, bands, total) ==
    IF bands = <<>> THEN [exc |-> "none", val |-> net]
    ELSE LET a == Amplitude(obj, hp, Given(Head(bands)))
         IN IF a.exc # "none" THEN a
            ELSE SubtractRejects(obj, hp,
                    [c \in 1..Len(net) |->
                        FracSub(net[c], FracDiv(a.val[c], Whole(total)))],
                    Tail(bands), total)

\* lines 411-447: the exception, or the list net_amplitude returns
NetAmplitude(obj, hp, signal_band, reject_bands) ==
    LET a == Amplitude(obj, hp, Given(signal_band))
        signal_band_bandwidth == signal_band[2] - signal_band[1]
    IN IF a.exc # "none" THEN a
       ELSE LET net == [c \in 1..Len(a.val) |->
                           FracDiv(a.val[c], Whole(signal_band_bandwidth))]
            IN IF ~reject_bands.set THEN [exc |-> "none", val |-> net]
               ELSE LET r == SubtractRejects(obj, hp, net, reject_bands.val,
                                             TotalBandwidth(reject_bands.val))
                    IN IF r.exc # "none" THEN r
                       ELSE [exc |-> "none",
                             val |-> [c \in 1..Len(r.val) |->
                                        IF FracLess(r.val[c], Whole(0))
                                        THEN Whole(0) ELSE r.val[c]]]

\* the objects a call may be made on, and the object a name stands for
Receivers == {"self"} \cup (IF sg_res.made THEN {"res"} ELSE {})
Receiver(which) == IF which = "self" THEN sg_self ELSE sg_res

\* arguments of the calls
FeatureRanges == {<<0, 1>>, <<1, 0>>, <<0>>}
DbRanges == {<<a, b>> : a \in 0..1, b \in 1..MaxDb}
Bands == {<<a, b>> : a \in 0..MaxFreqs, b \in 0..MaxFreqs}
Spans == {<<a, b>> : a \in 0..MaxTimes, b \in 0..MaxTimes}
WinValues == {NoneAttr} \cup {[set |-> TRUE, val |-> k] : k \in 0..MaxWin}
\* the bands amplitude and net_amplitude are asked about: the whole range,
\* the lowest frequency alone, one inner frequency alone
SomeBands == {<<0, MaxFreqs>>, <<0, 0>>, <<1, 1>>}

\* a method ends: it raises exc, or it hands the array seen through v (in
\* the buffers hp), f, t and lim to __init__ and returns the new object
SGReturn(op, which, exc, v, hp, f, t, lim) ==
    /\ sg_call' = [op |-> op, self |-> which]
    /\ sg_calls' = sg_calls + 1
    /\ sg_ret' = NoneAttr
    /\ IF exc # "none"
       THEN /\ sg_exc' = exc
            /\ UNCHANGED <<heap, sg_res>>
       ELSE IF InitRaises(v, f, t)
            THEN /\ sg_exc' = "TypeError"
                 /\ UNCHANGED <<heap, sg_res>>
            ELSE /\ sg_exc' = "none"
                 /\ sg_res' = Spectrogram(v, f, t, lim, NoneAttr, NoneAttr,
                                          NoneStr, NoneAttr)
                 /\ heap' = IF v.buf = 1 THEN <<hp[1]>> ELSE hp
    /\ UNCHANGED sg_self

\* a method ends: it raises r.exc or returns the value r.val
SGReturnValue(op, which, r) ==
    /\ sg_call' = [op |-> op, self |-> which]
    /\ sg_calls' = sg_calls + 1
    /\ sg_exc' = r.exc
    /\ sg_ret' = IF r.exc = "none" THEN [set |-> TRUE, val |-> r.val] ELSE NoneAttr
    /\ UNCHANGED <<heap, sg_self, sg_res>>

\* obj.name = value
SGSetAttr(which, name, value) ==
    /\ sg_calls < MaxCalls
    /\ which \in Receivers
    /\ LET r == SetAttr(Receiver(which), name, value)
       IN /\ sg_exc' = r.exc
          /\ sg_self' = IF which = "self" THEN r.obj ELSE sg_self
          /\ sg_res' = IF which = "res" THEN r.obj ELSE sg_res
    /\ sg_call' = [op |-> "__setattr__", self |-> which]
    /\ sg_calls' = sg_calls + 1
    /\ sg_ret' = NoneAttr
    /\ UNCHANGED heap
    /\ UNCHANGED <<db_rw, statsVars, ffsVars, fsVars, bxyVars>>

\* lines 225-249
SGMinMaxScale(which, feature_range) ==
    /\ sg_calls < MaxCalls
    /\ which \in Receivers
    /\ LET obj == Receiver(which)
           a == Contents(obj.spectrogram, heap)
           shape == ViewShape(obj.spectrogram)
       IN IF Len(feature_range) # 2
          THEN SGReturn("min_max_scale", which, "AttributeError", obj.spectrogram,
                        heap, obj.frequencies, obj.times, obj.decibel_limits)
          ELSE IF feature_range[2] < feature_range[1]
               THEN SGReturn("min_max_scale", which, "AttributeError",
                             obj.spectrogram, heap, obj.frequencies, obj.times,
                             obj.decibel_limits)
               ELSE IF MinMaxScaleRaises(a)
                    THEN SGReturn("min_max_scale", which, "ValueError",
                                  obj.spectrogram, heap, obj.frequencies,
                                  obj.times, obj.decibel_limits)
                    ELSE SGReturn("min_max_scale", which, "none",
                                  View(2, 0, shape[1], 0, shape[2]),
                                  Store(heap, min_max_scale(a, feature_range)),
                                  obj.frequencies, obj.times, obj.decibel_limits)
    /\ UNCHANGED <<db_rw, statsVars, ffsVars, fsVars, bxyVars>>

\* lines 251-276
SGLinearScale(which, feature_range) ==
    /\ sg_calls < MaxCalls
    /\ which \in Receivers
    /\ LET obj == Receiver(which)
           a == Contents(obj.spectrogram, heap)
           shape == ViewShape(obj.spectrogram)
       IN IF Len(feature_range) # 2
          THEN SGReturn("linear_scale", which, "AttributeError", obj.spectrogram,
                        heap, obj.frequencies, obj.times, obj.decibel_limits)
          ELSE IF feature_range[2] < feature_range[1]
               THEN SGReturn("linear_scale", which, "AttributeError",
                             obj.spectrogram, heap, obj.frequencies, obj.times,
                             obj.decibel_limits)
               ELSE SGReturn("linear_scale", which, "none",
                             View(2, 0, shape[1], 0, shape[2]),
                             Store(heap, linear_scale(a, obj.decibel_limits,
                                                      feature_range)),
                             obj.frequencies, obj.times, obj.decibel_limits)
    /\ UNCHANGED <<db_rw, statsVars, ffsVars, fsVars, bxyVars>>

\* lines 278-302
SGLimitDbRange(which, min_db, max_db) ==
    /\ sg_calls < MaxCalls
    /\ which \in Receivers
    /\ LET obj == Receiver(which)
       IN IF ~(max_db > min_db)
          THEN SGReturn("limit_db_range", which, "ValueError", obj.spectrogram,
                        heap, obj.frequencies, obj.times, obj.decibel_limits)
          ELSE LET limited == LimitOnCopy(obj.spectrogram, heap, min_db, max_db)
               IN SGReturn("limit_db_range", which, "none", limited.view,
                           limited.heap, obj.frequencies, obj.times,
                           obj.decibel_limits)
    /\ UNCHANGED <<db_rw, statsVars, ffsVars, fsVars, bxyVars>>

\* lines 304-333
SGBandpass(which, min_f, max_f) ==
    /\ sg_calls < MaxCalls
    /\ which \in Receivers
    /\ LET obj == Receiver(which)
           b == Bandpass(obj, min_f, max_f)
       IN SGReturn("bandpass", which, b.exc, b.view, heap, b.frequencies,
                   b.times, obj.decibel_limits)
    /\ UNCHANGED <<db_rw, statsVars, ffsVars, fsVars, bxyVars>>

\* lines 335-357
SGTrim(which, start_time, end_time) ==
    /\ sg_calls < MaxCalls
    /\ which \in Receivers
    /\ LET obj == Receiver(which)
           b == Trim(obj, start_time, end_time)
       IN SGReturn("trim", which, b.exc, b.view, heap, b.frequencies, b.times,
                   obj.decibel_limits)
    /\ UNCHANGED <<db_rw, statsVars, ffsVars, fsVars, bxyVars>>

\* lines 393-409
SGAmplitude(which, freq_range) ==
    /\ sg_calls < MaxCalls
    /\ which \in Receivers
    /\ SGReturnValue("amplitude", which, Amplitude(Receiver(which), heap, freq_range))
    /\ UNCHANGED <<db_rw, statsVars, ffsVars, fsVars, bxyVars>>

\* lines 411-447
SGNetAmplitude(which, signal_band, reject_bands) ==
    /\ sg_calls < MaxCalls
    /\ which \in Receivers
    /\ SGReturnValue("net_amplitude", which,
                     NetAmplitude(Receiver(which), heap, signal_band, reject_bands))
    /\ UNCHANGED <<db_rw, statsVars, ffsVars, fsVars, bxyVars>>

\* lines 201-205
SGWindowLength(which) ==
    /\ sg_calls < MaxCalls
    /\ which \in Receivers
    /\ sg_call' = [op |-> "window_length", self |-> which]
    /\ sg_calls' = sg_calls + 1
    /\ sg_exc' = "none"
    /\ sg_ret' = WindowLength(Receiver(which))
    /\ UNCHANGED <<heap, sg_self, sg_res>>
    /\ UNCHANGED <<db_rw, statsVars, ffsVars, fsVars, bxyVars>>

\* lines 207-214
SGWindowStep(which) ==
    /\ sg_calls < MaxCalls
    /\ which \in Receivers
    /\ sg_call' = [op |-> "window_step", self |-> which]
    /\ sg_calls' = sg_calls + 1
    /\ sg_exc' = "none"
    /\ sg_ret' = WindowStep(Receiver(which))
    /\ UNCHANGED <<heap, sg_self, sg_res>>
    /\ UNCHANGED <<db_rw, statsVars, ffsVars, fsVars, bxyVars>>

\* the array of n x m decibel values a spectrogram is made of
InitialArray(n, m, k) ==
    [r \in 1..n |-> [c \in 1..m |-> Whole((r + k * c) % (MaxDb + 1))]]

\* an object made by __init__ alone, or by from_audio (lines 104-159)
InitSG ==
    /\ db_rw = TRUE
    /\ StatsIdle
    /\ FFSIdle
    /\ FSIdle
    /\ BXYIdle
    /\ \E n \in 1..MaxFreqs, m \in 1..MaxTimes, from_audio \in BOOLEAN :
          /\ heap = <<InitialArray(n, m, 1)>>
          /\ sg_self = Spectrogram(View(1, 0, n, 0, m),
                                   [i \in 1..n |-> i - 1], [j \in 1..m |-> j - 1],
                                   <<0, MaxDb>>,
                                   IF from_audio THEN [set |-> TRUE, val |-> 2] ELSE NoneAttr,
                                   IF from_audio THEN [set |-> TRUE, val |-> 1] ELSE NoneAttr,
                                   IF from_audio THEN [set |-> TRUE, val |-> "hann"] ELSE NoneStr,
                                   IF from_audio THEN [set |-> TRUE, val |-> 1] ELSE NoneAttr)
    /\ sg_res = NoObject
    /\ sg_ret = NoneAttr
    /\ sg_exc = "none"
    /\ sg_call = NoCall
    /\ sg_calls = 0

NextSG ==
    \/ \E which \in {"self", "res"}, name \in AttributeNames, value \in {NoneAttr} :
          SGSetAttr(which, name, value)
    \/ \E which \in {"self", "res"}, fr \in FeatureRanges : SGMinMaxScale(which, fr)
    \/ \E which \in {"self", "res"}, fr \in FeatureRanges : SGLinearScale(which, fr)
    \/ \E which \in {"self", "res"}, r \in DbRanges : SGLimitDbRange(which, r[1], r[2])
    \/ \E which \in {"self", "res"}, b \in Bands : SGBandpass(which, b[1], b[2])
    \/ \E which \in {"self", "res"}, b \in Spans : SGTrim(which, b[1], b[2])
    \/ \E which \in {"self", "res"}, fr \in {NoneArg} \cup {Given(b) : b \in SomeBands} :
          SGAmplitude(which, fr)
    \/ \E which \in {"self", "res"}, sb \in SomeBands,
          rb \in {NoneArg} \cup {Given(<<b>>) : b \in SomeBands} :
          SGNetAmplitude(which, sb, rb)

SpecSG == InitSG /\ [][NextSG]_vars

\* an object with any window attributes (SpecWS)
InitWS ==
    /\ db_rw = TRUE
    /\ StatsIdle
    /\ FFSIdle
    /\ FSIdle
    /\ BXYIdle
    /\ heap = <<InitialArray(1, 1, 0)>>
    /\ \E ws \in WinValues, os \in WinValues, rate \in WinValues :
          sg_self = Spectrogram(View(1, 0, 1, 0, 1), <<0>>, <<0>>, <<0, MaxDb>>,
                                ws, os, [set |-> TRUE, val |-> "hann"], rate)
    /\ sg_res = NoObject
    /\ sg_ret = NoneAttr
    /\ sg_exc = "none"
    /\ sg_call = NoCall
    /\ sg_calls = 0

NextWS ==
    \/ \E which \in {"self", "res"} : SGWindowLength(which)
    \/ \E which \in {"self", "res"} : SGWindowStep(which)

SpecWS == InitWS /\ [][NextWS]_vars

\* ------------------------------------------------------------------------
\* Properties of model_fit_algo / run_stats (Spec)
\* ------------------------------------------------------------------------
\* the record a serial run of run_stats leaves for label l
SerialRecord(l) ==
    [written |-> TRUE,
     row |-> FileStatsRow(InitialSpectrograms[l]),
     match |-> [k \in Labels |->
                   MatchEntry(InitialSpectrograms[l], InitialSpectrograms[k])]]

ModelPhase == {"build_X_y", "fit_model", "write_model", "finished"}

\* C1: write_file_stats is called at most once per label, a written record
\* holds both the first-order row and the match statistics, and a label
\* whose file_stats or file_file_stats failed has no record.
C1_WriteOnceAfterBoth ==
    \A l \in Labels :
        /\ writes[l] <= 1
        /\ statistics[l].written <=> writes[l] = 1
        /\ statistics[l].written =>
              /\ statistics[l].row # <<>>
              /\ statistics[l].match # <<>>
              /\ task[l] = "done"
        /\ task[l] = "failed" => ~statistics[l].written

C1_Witness ==
    \E l, k \in Labels :
        /\ writes[l] = 1 /\ statistics[l].written
        /\ task[k] = "failed"
        /\ orch.pc = "map"

\* C2: the stored spectrograms are never modified and every record ever
\* persisted equals the record a serial run leaves for that label, whatever
\* the worker count and the interleaving.
C2_SerialEquivalent ==
    /\ spectrograms = InitialSpectrograms
    /\ \A l \in Labels : statistics[l].written => statistics[l] = SerialRecord(l)
    /\ orch.pc \in ModelPhase => \A l \in Labels : statistics[l] = SerialRecord(l)

C2_Witness ==
    /\ nprocs = 2
    /\ \E l, k \in Labels :
        /\ l # k
        /\ task[l] = "write_file_stats"
        /\ task[k] = "file_file_stats"

\* C3 as stated: after model_fit_algo raised, re-running run_stats for the
\* failed labels alone leaves every label with a record.
C3_RerunFailedCompletes ==
    (/\ orch.pc = "raised"
     /\ \A l \in Labels : task[l] \notin Active \cup {"failed"})
    => \A l \in Labels : statistics[l].written

\* C3 amended: a failed task keeps model_fit_algo out of the model phase
\* and nothing is fitted or written; failed and cancelled labels have no
\* record; the records of the other labels are the serial ones; once every
\* label left without a record (failed or cancelled) has been re-run, every
\* label has its record.
C3_FailureSurfaced ==
    /\ (\E l \in Labels : task[l] \in {"failed", "cancelled"}) =>
          /\ orch.pc \notin ModelPhase
          /\ models = {}
    /\ orch.pc \in {"shutdown", "raised"} => models = {}
    /\ \A l \in Labels :
          task[l] \in {"failed", "cancelled"} => statistics[l] = NoRecord
    /\ \A l \in Labels :
          statistics[l].written => statistics[l] = SerialRecord(l)
    /\ (orch.pc = "raised" /\ \A l \in Labels : task[l] = "done") =>
          \A l \in Labels : statistics[l] = SerialRecord(l)

C3_Witness ==
    /\ orch.pc = "raised"
    /\ \A l \in Labels : task[l] = "done" /\ statistics[l].written

\* ------------------------------------------------------------------------
\* Properties of file_file_stats (SpecFFS)
\* ------------------------------------------------------------------------
\* the template row i of the current candidate has been handed to
\* matchTemplate or skipped by the size test
CurrentTable == ffs_pc \in {"rows", "items", "returned", "cv2.error"}
                   /\ idx_two \in DOMAIN match_stats_dict

\* C4: no template makes matchTemplate fail: a template that passes the
\* size test is no taller than the stripe spec_one[y_min_target:y_max_target, :]
\* and no wider than the source.
C4_TemplateFitsStripe ==
    /\ ffs_pc # "cv2.error"
    /\ ffs_pc = "rows" =>
          LET box == df_two[idx + 1]
              ymin == YMinTarget(box, frequency_buffer)
              ymax == YMaxTarget(box, frequency_buffer, spec_two)
          IN Eligible(box, ymin, ymax, spec_one) =>
                /\ box.y_max - box.y_min <= SliceRows(spec_one.h, ymin, ymax)
                /\ box.x_max - box.x_min <= spec_one.w

\* C5: the search window of the row the inner loop took last is
\* [max(0, y_min - buffer), min(source height, y_max + buffer)].
C5_WindowClampsToSource ==
    (idx >= 1 /\ ffs_pc \in {"rows", "items", "returned"}) =>
        /\ y_min_target = Max(0, df_two[idx].y_min - frequency_buffer)
        /\ y_max_target = Min(spec_one.h, df_two[idx].y_max + frequency_buffer)

\* C6: every candidate has one row per box of its down-selected table; a
\* row holds what lines 187-189 stored for it, or zeros when nothing was
\* stored; a finished row was stored if and only if the window height is at
\* most the source height and the template width at most the source width;
\* a row not reached yet, or of a template wider than the source, is zero.
C6_RowsOverwrittenIffEligible ==
    /\ DOMAIN overwritten = DOMAIN match_stats_dict
    /\ \A k \in DOMAIN match_stats_dict :
          /\ Len(match_stats_dict[k]) = Len(overwritten[k])
          /\ \A i \in 1..Len(match_stats_dict[k]) :
                match_stats_dict[k][i] =
                    IF overwritten[k][i] = <<>> THEN ZeroRow ELSE overwritten[k][i]
    /\ CurrentTable =>
          /\ Len(match_stats_dict[idx_two]) = Len(df_two)
          /\ \A i \in 1..Len(df_two) :
                LET box == df_two[i]
                    height == YMaxTarget(box, frequency_buffer, spec_two)
                                - YMinTarget(box, frequency_buffer)
                    width == box.x_max - box.x_min
                IN /\ i <= idx =>
                        (overwritten[idx_two][i] # <<>>
                            <=> (height <= spec_one.h /\ width <= spec_one.w))
                   /\ i > idx => overwritten[idx_two][i] = <<>>
                   /\ width > spec_one.w => match_stats_dict[idx_two][i] = ZeroRow

C6_Witness ==
    /\ ffs_pc = "returned"
    /\ CurrentTable
    /\ Len(df_two) = 2
    /\ overwritten[idx_two][1] # <<>>
    /\ match_stats_dict[idx_two][2] = ZeroRow
    /\ df_two[2].x_max - df_two[2].x_min > spec_one.w

C8_LivePathReturns ==
    ~db_rw =>
        /\ ffs_pc # "TypeError"
        /\ ffs_pc = "returned" => DOMAIN match_stats_dict = Labels

\* ------------------------------------------------------------------------
\* Properties of file_stats (SpecFS)
\* ------------------------------------------------------------------------
\* C9: file_stats returns whenever the band count is at most the number of
\* spectrogram rows, and the returned row has 4 + 4*K + 12 entries whatever
\* the number of rows of the box table, zero included.
C9_RowLengthConstant ==
    /\ num_frequency_bands <= spec.h => fs_pc # "ValueError"
    /\ fs_pc = "returned" => Len(row) = 4 + 4 * num_frequency_bands + 12

C9_Witness ==
    /\ fs_pc = "returned"
    /\ Len(df) = 0
    /\ num_frequency_bands = 2
    /\ Len(row) = 24

\* C10: for 1 <= K <= height the split gives K non-empty bands, the first
\* starting at row 0, each starting where the previous one ends, the last
\* ending at the last row; every band is described and the band part of the
\* row has 4*K entries, four per band in band order.
C10_BandsPartitionRows ==
    (fs_pc \in {"segments", "row", "returned", "ValueError"}
        /\ num_frequency_bands <= spec.h) =>
        /\ fs_pc # "ValueError"
        /\ Len(freq_bands) = num_frequency_bands
        /\ freq_bands[1].lo = 0
        /\ freq_bands[Len(freq_bands)].hi = spec.h
        /\ \A i \in 1..Len(freq_bands) : freq_bands[i].lo < freq_bands[i].hi
        /\ \A i \in 1..(Len(freq_bands) - 1) : freq_bands[i].hi = freq_bands[i + 1].lo
        /\ \A r \in 0..(spec.h - 1) :
              Cardinality({i \in 1..Len(freq_bands) :
                              freq_bands[i].lo <= r /\ r < freq_bands[i].hi}) = 1
        /\ Len(BandRows(freq_bands_stats)) = 4 * num_frequency_bands
        /\ fs_pc = "returned" =>
              \A i \in 1..num_frequency_bands :
                 SubSeq(row, 4 * i + 1, 4 * i + 4) =
                    RawRow(Describe("band", freq_bands[i]))

C10_Witness ==
    /\ fs_pc = "returned"
    /\ spec.h = 4
    /\ num_frequency_bands = 3
    /\ freq_bands = <<[lo |-> 0, hi |-> 2], [lo |-> 2, hi |-> 3], [lo |-> 3, hi |-> 4]>>

\* the value of column c (1 width, 2 height, 3 y_min) of a box
C11_Value(b, c) ==
    CASE c = 1 -> b.x_max - b.x_min
      [] c = 2 -> b.y_max - b.y_min
      [] c = 3 -> b.y_min

RECURSIVE C11_Sum(_, _, _)
\* the sum over the boxes i..Len(df) of f applied to the box
C11_Sum(f(_), table, i) ==
    IF i > Len(table) THEN 0 ELSE f(table[i]) + C11_Sum(f, table, i + 1)

\* C11: a file without boxes makes file_stats return a row whose last 12
\* entries are zero; a file with n >= 1 boxes makes it return a row whose
\* last 12 entries are, in this order, the minima, the maxima, the means and
\* the sample standard deviations (divisor n - 1, so not a number for a
\* single box) of width = x_max - x_min, height = y_max - y_min and y_min.
C11_SegmentBlock ==
    /\ (Len(df) = 0 /\ fs_pc \in {"segments", "row"}) => df_stats.len \in {0, 2}
    /\ fs_pc = "returned" =>
        LET n == Len(df)
            base == 4 + 4 * num_frequency_bands
            e(s, c) == row[base + 3 * (s - 1) + c]
        IN /\ Len(row) = base + 12
           /\ n = 0 => \A k \in 1..12 : row[base + k] = ZeroEntry
           /\ n > 0 =>
               \A c \in 1..3 :
                  LET v(b) == C11_Value(b, c)
                      S == C11_Sum(v, df, 1)
                      dev(b) == (n * v(b) - S) * (n * v(b) - S)
                  IN /\ e(1, c)[1] = "min" /\ e(1, c)[4] = 1
                     /\ \E i \in 1..n : e(1, c)[3] = v(df[i])
                     /\ \A i \in 1..n : e(1, c)[3] <= v(df[i])
                     /\ e(2, c)[1] = "max" /\ e(2, c)[4] = 1
                     /\ \E i \in 1..n : e(2, c)[3] = v(df[i])
                     /\ \A i \in 1..n : e(2, c)[3] >= v(df[i])
                     /\ e(3, c)[1] = "mean"
                     /\ e(3, c)[3] * n = S * e(3, c)[4] /\ e(3, c)[4] > 0
                     /\ e(4, c)[1] = "std"
                     /\ (n = 1) <=> (e(4, c)[4] = 0)
                     /\ n > 1 =>
                           e(4, c)[3] * (n * n * (n - 1)) =
                              C11_Sum(dev, df, 1) * e(4, c)[4]

C11_Witness ==
    /\ fs_pc = "returned"
    /\ Len(df) = 2
    /\ df[1].x_max - df[1].x_min # df[2].x_max - df[2].x_min
    /\ row[4 + 4 * num_frequency_bands + 10][3] > 0

\* C12: the row recorded for a template that was matched is
\* [max_val, max_x, max_y + y_min_target] with (max_x, max_y) a location in
\* the stripe: its y lies between y_min_target and y_max_target less the
\* template's height, in the coordinates of the whole source spectrogram (the
\* template placed there lies inside the source), and its x between 0 and
\* the source's width less the template's width.
C12_RecordedLocation ==
    (/\ CurrentTable
     /\ ffs_pc # "cv2.error"
     /\ idx >= 1
     /\ overwritten[idx_two][idx] # <<>>) =>
        LET box == df_two[idx]
            stored == match_stats_dict[idx_two][idx]
            template_height == box.y_max - box.y_min
            template_width == box.x_max - box.x_min
        IN /\ stored = overwritten[idx_two][idx]
           /\ stored[1] \in MatchVals
           /\ y_min_target <= stored[3]
           /\ stored[3] <= y_max_target - template_height
           /\ stored[3] + template_height <= spec_one.h
           /\ 0 <= stored[2]
           /\ stored[2] <= spec_one.w - template_width

C12_Witness ==
    /\ CurrentTable
    /\ ffs_pc # "cv2.error"
    /\ idx >= 1
    /\ overwritten[idx_two][idx] # <<>>
    /\ y_min_target > 0
    /\ match_stats_dict[idx_two][idx][3] = y_min_target
    /\ match_stats_dict[idx_two][idx][2] > 0

\* ------------------------------------------------------------------------
\* Properties of build_X_y (SpecBXY)
\* ------------------------------------------------------------------------
BXYErrors == {"TypeError", "ValueError", "KeyError"}

\* C13: whatever the order in which the cursor returns the records, the
\* statistics of a label are put at the position of that label in the input;
\* the returned matrix has one row per input label, row i made of the
\* first-order row and the match rows of the i-th label, and the label vector
\* has the same length and holds the input's values in the input's order.
\* The call returns whenever every label has a record and there is a
\* candidate.
C13_RowPerLabel ==
    /\ bxy_pc \in {"items", "stacked", "returned"} =>
          \A i \in 1..NumLabels :
             /\ file_stats[i].set <=>
                   (collection[LabelsIndex[i]].written /\ LabelsIndex[i] \notin unread)
             /\ file_stats[i].set <=> file_file_stats[i].set
             /\ file_stats[i].set =>
                   /\ \A j \in 1..Len(file_stats[i].val) :
                         file_stats[i].val[j].label = LabelsIndex[i]
                   /\ \A c \in 1..Len(file_file_stats[i].val) :
                      \A t \in 1..Len(file_file_stats[i].val[c]) :
                      \A j \in 1..3 :
                         /\ file_file_stats[i].val[c][t][j].label = LabelsIndex[i]
                         /\ file_file_stats[i].val[c][t][j].cand =
                               get_file_file_stats_for[c]
    /\ bxy_pc = "returned" =>
          /\ Len(X) = NumLabels
          /\ Len(y) = NumLabels
          /\ \A i \in 1..NumLabels :
                /\ y[i] = labels_bird[LabelsIndex[i]]
                /\ Len(X[i]) >= RowLen
                /\ \A k \in 1..Len(X[i]) : X[i][k].label = LabelsIndex[i]
                /\ \A j \in 1..RowLen :
                      /\ X[i][j].cand = 0
                      /\ X[i][j].col = collection[LabelsIndex[i]].row[j].col
                /\ \A k \in (RowLen + 1)..Len(X[i]) : X[i][k].cand # 0
    /\ ((\A l \in Labels : collection[l].written)
           /\ GetFileFileStatsFor(pools_df, labels_bird) # <<>>) =>
          bxy_pc \notin BXYErrors

C13_Witness ==
    /\ bxy_pc = "items"
    /\ unread = {LabelsIndex[1]}
    /\ file_stats[2].set
    /\ ~file_stats[1].set
    /\ file_stats[2].val[1].label = LabelsIndex[2]

RECURSIVE C14_TotalTemplates(_, _)
\* the number of template rows the record rec holds for the candidates
C14_TotalTemplates(rec, cands) ==
    IF cands = <<>> THEN 0
    ELSE Len(rec.match[Head(cands)]) + C14_TotalTemplates(rec, Tail(cands))

\* the candidate sets build_X_y may be given for another species column
C14_CandidateSets ==
    {GetFileFileStatsFor(pools_df, column) : column \in [Labels -> {0, 1}]}

\* the number of columns build_X_y gives with the candidates cands
C14_Columns(cands) ==
    RowLen + Len(Flatten(Tmp([i \in 1..Len(cands) |->
                                 collection[LabelsIndex[1]].match[cands[i]]])))

\* C14 as stated: two species whose candidate sets hold the same number of
\* labels get matrices of the same number of columns.
C14_ColumnsFixedBySetSize ==
    bxy_pc = "returned" =>
        \A cands \in C14_CandidateSets :
            Len(cands) = Len(get_file_file_stats_for) =>
                C14_Columns(cands) = Len(X[1])

\* C14, amended: every row of the matrix has as many columns as the
\* first-order row has entries plus three per template row of the candidate
\* labels; two species whose candidate sets hold the same total number of
\* template rows get matrices of the same number of columns, and with a
\* template pool every species does.
C14_ColumnsFixedByTemplateCount ==
    bxy_pc = "returned" =>
        LET total(cands) == C14_TotalTemplates(collection[LabelsIndex[1]], cands)
        IN /\ \A i \in 1..NumLabels :
                 Len(X[i]) = RowLen + 3 * total(get_file_file_stats_for)
           /\ \A cands \in C14_CandidateSets :
                 total(cands) = total(get_file_file_stats_for) =>
                    C14_Columns(cands) = Len(X[1])
           /\ pools_df.configured =>
                 \A cands \in C14_CandidateSets : C14_Columns(cands) = Len(X[1])

C14_Witness ==
    /\ bxy_pc = "returned"
    /\ ~pools_df.configured
    /\ get_file_file_stats_for = <<1>>
    /\ Len(collection[1].match[1]) = 2
    /\ Len(collection[1].match[2]) = 2
    /\ Len(X[1]) = RowLen + 6

\* C15 as stated: the returned matrix holds no value that is not a number
\* and no infinite value, whether the persisted value was in a file's
\* first-order row or in its match statistics.
C15_NoNonFinite ==
    bxy_pc = "returned" =>
        \A i \in 1..NumLabels :
        \A k \in 1..Len(X[i]) : X[i][k].v \notin {"nan", "inf"}

\* C16 as stated: a label without a record does not make build_X_y raise;
\* the matrix has a row for every label and the row of the label without a
\* record is zero.
C16_MissingRecordTolerated ==
    (\E l \in Labels : ~collection[l].written) =>
        /\ bxy_pc \notin BXYErrors
        /\ bxy_pc = "returned" =>
              /\ Len(X) = NumLabels
              /\ \A i \in 1..NumLabels :
                    ~collection[LabelsIndex[i]].written =>
                       \A k \in 1..Len(X[i]) : X[i][k].v = "zero"

\* ------------------------------------------------------------------------
\* Properties of Spectrogram (SpecSG, SpecWS)
\* ------------------------------------------------------------------------

\* the methods that return a Spectrogram, and those that return numbers
ObjectMethods == {"min_max_scale", "linear_scale", "limit_db_range", "bandpass", "trim"}
ValueMethods == {"amplitude", "net_amplitude"}

\* C17: a Spectrogram is immutable. Every step (an attribute assignment or
\* a call of one of the seven methods, on the first object or on an object
\* returned earlier) leaves the eight attributes of the first object and
\* the contents of its array as they were; an attribute assignment raises
\* AttributeError and changes no object; amplitude and net_amplitude change
\* no object; a method that returns a Spectrogram returns a new object.
C17_Immutable ==
    [][/\ sg_self' = sg_self
       /\ Contents(sg_self'.spectrogram, heap') = Contents(sg_self.spectrogram, heap)
       /\ (sg_call'.op = "__setattr__" =>
              /\ sg_exc' = "AttributeError"
              /\ sg_res' = sg_res
              /\ heap' = heap)
       /\ (sg_call'.op \in ValueMethods => sg_res' = sg_res /\ heap' = heap)
       /\ (sg_call'.op \in ObjectMethods /\ sg_exc' = "none" =>
              /\ sg_res'.made
              /\ sg_call'.self = "res" =>
                    sg_res.made /\ (sg_res'.spectrogram.buf = 1 => heap' = heap))]_vars

\* C17 witness: after an earlier call, limit_db_range on the first object
\* returned an object whose array differs from the first object's array
C17_Witness ==
    /\ sg_calls > 1
    /\ sg_call = [op |-> "limit_db_range", self |-> "self"]
    /\ sg_exc = "none"
    /\ sg_res.made
    /\ sg_res.spectrogram.buf = 2
    /\ Contents(sg_res.spectrogram, heap) # Contents(sg_self.spectrogram, heap)

\* C19: window_step returns (window_samples - overlap_samples) /
\* audio_sample_rate whenever the three attributes are set (not None),
\* overlap_samples = 0 included, and None only when one of them is missing
\* (stated for windows of at least one sample and a sample rate other
\* than 0, where the quotient is defined)
C19_StepWheneverSet ==
    (/\ sg_call.op = "window_step"
     /\ Receiver(sg_call.self).window_samples # [set |-> TRUE, val |-> 0]
     /\ Receiver(sg_call.self).audio_sample_rate # [set |-> TRUE, val |-> 0]) =>
        LET claimed == WindowStepNotNone(Receiver(sg_call.self))
        IN /\ sg_ret.set = claimed.set
           /\ (claimed.set => sg_ret.val = claimed.val)

\* ------------------------------------------------------------------------
\* Properties of the band split of file_stats (SpecFS)
\* ------------------------------------------------------------------------

\* the number of rows of band i, and whether the split was made with a
\* number of bands that does not divide the number of rows
C18_Size(i) == freq_bands[i].hi - freq_bands[i].lo
C18_UnevenSplit == freq_bands # <<>> /\ spec.h % num_frequency_bands # 0

\* C18 (as stated): when K does not divide the number of rows, all bands
\* but the last have the same size and only the last band is smaller
\* (stated for the splits that leave no band empty, K < h)
C18_OnlyLastSmaller ==
    (C18_UnevenSplit /\ num_frequency_bands < spec.h) =>
        /\ Len(freq_bands) = num_frequency_bands
        /\ \A i \in 1..(Len(freq_bands) - 1) : C18_Size(i) = C18_Size(1)
        /\ C18_Size(Len(freq_bands)) < C18_Size(1)

\* C18 (amended): when K does not divide the number of rows h, there are K
\* bands, the first h mod K of them with h div K + 1 rows and the others
\* with h div K rows
C18_FirstBandsLarger ==
    C18_UnevenSplit =>
        /\ Len(freq_bands) = num_frequency_bands
        /\ \A i \in 1..Len(freq_bands) :
              C18_Size(i) = IF i <= spec.h % num_frequency_bands
                            THEN spec.h \div num_frequency_bands + 1
                            ELSE spec.h \div num_frequency_bands

\* C18 witness: 4 rows split into 3 bands of 2, 1 and 1 rows, all described
C18_Witness ==
    /\ spec.h = 4
    /\ num_frequency_bands = 3
    /\ Len(freq_bands) = 3
    /\ <<C18_Size(1), C18_Size(2), C18_Size(3)>> = <<2, 1, 1>>
    /\ Len(freq_bands_stats) = 3

\* ------------------------------------------------------------------------
\* Properties of the phases of model_fit_algo (Spec)
\* ------------------------------------------------------------------------

\* the steps made for one species
C20_SpeciesSteps == {"build_X_y", "fit_model", "write_model"}

C21_Objects == {sg_self} \cup (IF sg_res.made THEN {sg_res} ELSE {})

\* C21: every object made by the constructor and by any sequence of
\* bandpass, trim, limit_db_range, min_max_scale and linear_scale calls has
\* an array of len(frequencies) rows and len(times) columns, an empty or
\* reversed range of bandpass or trim included: such a call returns an
\* object (the constructor's shape check never rejects what these methods
\* hand it) and the object's shape agrees.
C21_ShapeAgrees ==
    /\ \A obj \in C21_Objects :
          /\ ViewShape(obj.spectrogram) = <<Len(obj.frequencies), Len(obj.times)>>
          /\ Len(Contents(obj.spectrogram, heap)) = Len(obj.frequencies)
          /\ \A r \in 1..Len(obj.frequencies) :
                Len(Contents(obj.spectrogram, heap)[r]) = Len(obj.times)
    /\ (sg_call.op \in ObjectMethods => sg_exc # "TypeError")

\* C21 witness: trim with start_time after end_time returned an object
\* without columns and without times, its frequencies kept
C21_Witness ==
    /\ sg_call = [op |-> "trim", self |-> "self"]
    /\ sg_exc = "none"
    /\ sg_res.made
    /\ Len(sg_self.times) > 1
    /\ Len(sg_res.times) = 0
    /\ Len(sg_res.frequencies) = Len(sg_self.frequencies)
    /\ ViewShape(sg_res.spectrogram) = <<Len(sg_self.frequencies), 0>>

====
